---- MODULE Spec2Model ----
(***************************************************************************)
(* Model of jiu's recipe resolution: Recipe::resolve (src/src/lib.rs)      *)
(* binding the caller's tokens to the recipe's argument definitions with   *)
(* ArgumentType::resolve (src/src/arguments.rs), expanding the command     *)
(* template, and main (src/src/main.rs) handing the result to the process  *)
(* spawner.                                                                *)
(***************************************************************************)
EXTENDS Integers, Sequences, FiniteSets, TLC

\* Bounds of the model: the size of a recipe (its definitions plus the
\* components of its template) and the length of the token queue.
MaxRecipe == 3
MaxTokens == 2
\* Longest specifier string given to the parser, and the number of calls a
\* test makes on one queue.
MaxSpecifier == 3
MaxCalls == 3

\* Small alphabets the inputs are drawn from. Definitions are named from
\* Names; the bounded templates reference x only, which is defined once,
\* twice or not at all by the definition lists over Names.
Names == {"x", "y"}
RefNames == {"x"}
Tokens == {"a", "b"}
Literals == {"echo"}
EnvNames == {"HOME"}
EnvValues == {"/root"}
Chars == {"?", "*", "+", "x", "y"}

VARIABLES
    arguments,        \* Recipe.arguments: Vec<ArgumentDefinition>
    command,          \* Recipe.command: Vec<Component>
    tokens,           \* the token queue as the caller passed it to resolve
    env,              \* the process environment read by std::env::var
    args,             \* resolve's `mut args: VecDeque<String>`
    resolved_args,    \* resolve's `resolved_args: HashMap<String, ResolvedArgument>`
    resolved_command, \* resolve's `resolved_command: Vec<String>`
    i,                \* number of definitions the first loop has processed
    j,                \* number of components the second loop has processed
    pc,               \* position in resolve / main
    result,           \* what resolve returned (NoResult until it returns)
    process,          \* what main did with the result
    specifier,        \* the string given to ArgumentDefinition::from_string
    definition,       \* what from_string returned (NoResult until it returns)
    calls,            \* the arities a test has called ArgumentType::resolve on
    outcomes          \* what each of those calls returned

vars == <<arguments, command, tokens, env, args, resolved_args,
          resolved_command, i, j, pc, result, process,
          specifier, definition, calls, outcomes>>

\* the state of the parser and of the unit tests, which resolve leaves alone
outside == <<specifier, definition, calls, outcomes>>

SeqsUpTo(S, n) == UNION {[1..k -> S] : k \in 0..n}

\* ---------------------------------------------------------------- data model

ArgumentType == {"Required", "Optional", "Variadic", "RequiredVariadic"}

ArgumentDefinition == [name : Names, arg_type : ArgumentType]

\* Option<String>
None == <<>>
Some(v) == <<v>>

\* enum ResolvedArgument
Required(value) == [tag |-> "Required", value |-> value]
Optional(value) == [tag |-> "Optional", opt |-> value]
Variadic(values) == [tag |-> "Variadic", values |-> values]
RequiredVariadic(values) == [tag |-> "RequiredVariadic", values |-> values]

\* enum Component
Literal(literal) == [kind |-> "Literal", literal |-> literal]
Argument(ref_arg) == [kind |-> "Argument", ref_arg |-> ref_arg]
EnvVar(var_name) == [kind |-> "EnvVar", var_name |-> var_name]

Component ==
    {Literal(l) : l \in Literals}
    \cup {Argument([name |-> n, arg_type |-> t]) : n \in RefNames, t \in ArgumentType}
    \cup {EnvVar(v) : v \in EnvNames}

\* anyhow::Result
Ok(value) == [tag |-> "Ok", value |-> value]
Err(msg) == [tag |-> "Err", msg |-> msg]
NoResult == [tag |-> "None"]

\* ------------------------------------------------------------- arguments.rs

\* ArgumentDefinition::summarize(false).0
summarize(arg) ==
    LET symbol == CASE arg.arg_type = "Required" -> ""
                    [] arg.arg_type = "Optional" -> "?"
                    [] arg.arg_type = "Variadic" -> "*"
                    [] arg.arg_type = "RequiredVariadic" -> "+"
    IN  symbol \o arg.name

\* impl Display for ArgumentType
Display(arg_type) ==
    CASE arg_type = "Required" -> "Required"
      [] arg_type = "Optional" -> "?Optional"
      [] arg_type = "Variadic" -> "*Variadic"
      [] arg_type = "RequiredVariadic" -> "+RequiredVariadic"

\* pop_front taking from the wrong end of the queue
pop_back(q) ==
    IF q = <<>> THEN [value |-> None, args |-> q]
    ELSE [value |-> Some(q[Len(q)]), args |-> SubSeq(q, 1, Len(q) - 1)]

\* VecDeque::pop_front: the popped Option and the queue left
pop_front(q) ==
    IF q = <<>> THEN [value |-> None, args |-> q]
    ELSE [value |-> Some(Head(q)), args |-> Tail(q)]

\* drain that copies the elements and leaves them in the queue
drain_cloned(q) == [values |-> q, args |-> q]

\* drain that takes the front element only
drain_first(q) ==
    IF q = <<>> THEN [values |-> <<>>, args |-> q]
    ELSE [values |-> <<Head(q)>>, args |-> Tail(q)]

\* VecDeque::drain(..).collect(): every element, in order, and the empty queue
drain(q) == [values |-> q, args |-> <<>>]

\* resolve without RequiredVariadic's emptiness check
resolve_unchecked(self, q) ==
    CASE self = "Required" ->
            IF q = <<>>
            THEN [res |-> Err("Required argument not provided"), args |-> q]
            ELSE [res |-> Ok(Required(Head(q))), args |-> Tail(q)]
      [] self = "Optional" ->
            IF q = <<>>
            THEN [res |-> Ok(Optional(None)), args |-> q]
            ELSE [res |-> Ok(Optional(Some(Head(q)))), args |-> Tail(q)]
      [] self = "Variadic" -> [res |-> Ok(Variadic(q)), args |-> <<>>]
      [] self = "RequiredVariadic" -> [res |-> Ok(RequiredVariadic(q)), args |-> <<>>]

\* resolve whose RequiredVariadic drains the queue first and then asks for
\* more than one value
resolve_drain_first(self, q) ==
    CASE self = "Required" ->
            IF q = <<>>
            THEN [res |-> Err("Required argument not provided"), args |-> q]
            ELSE [res |-> Ok(Required(Head(q))), args |-> Tail(q)]
      [] self = "Optional" ->
            IF q = <<>>
            THEN [res |-> Ok(Optional(None)), args |-> q]
            ELSE [res |-> Ok(Optional(Some(Head(q)))), args |-> Tail(q)]
      [] self = "Variadic" -> [res |-> Ok(Variadic(q)), args |-> <<>>]
      [] self = "RequiredVariadic" ->
            IF Len(q) <= 1
            THEN [res |-> Err("Required variadic argument must contain at least one value"),
                  args |-> <<>>]
            ELSE [res |-> Ok(RequiredVariadic(q)), args |-> <<>>]

\* ArgumentType::resolve(&self, args: &mut VecDeque<String>): the Result and
\* the queue as the call leaves it
resolve(self, q) ==
    CASE self = "Required" ->
            LET p == pop_front(q)
            IN  IF p.value = None
                THEN [res |-> Err("Required argument not provided"), args |-> p.args]
                ELSE [res |-> Ok(Required(p.value[1])), args |-> p.args]
      [] self = "Optional" ->
            LET p == pop_front(q)
            IN  [res |-> Ok(Optional(p.value)), args |-> p.args]
      [] self = "Variadic" ->
            LET d == drain(q)
            IN  [res |-> Ok(Variadic(d.values)), args |-> d.args]
      [] self = "RequiredVariadic" ->
            IF q = <<>>
            THEN [res |-> Err("Required variadic argument must contain at least one value"),
                  args |-> q]
            ELSE LET d == drain(q)
                 IN  [res |-> Ok(RequiredVariadic(d.values)), args |-> d.args]

\* ResolvedArgument::arg_type
arg_type(resolved) == resolved.tag

\* matches telling only the greedy arities from the single-valued ones
matches_by_class(resolved, t) ==
    (resolved.tag \in {"Variadic", "RequiredVariadic"})
        = (t \in {"Variadic", "RequiredVariadic"})

\* ResolvedArgument::matches
matches(resolved, t) == arg_type(resolved) = t

\* -------------------------------------------------------------------- lib.rs

\* anyhow's with_context: the error wrapped with the context message
with_context(res, context) ==
    IF res.tag = "Err" THEN [tag |-> "Err", msg |-> context, source |-> res.msg]
    ELSE res

\* HashMap::insert: a later insertion under the same key replaces the entry
insert(map, key, value) ==
    [k \in (DOMAIN map) \cup {key} |-> IF k = key THEN value ELSE map[k]]

EmptyMap == [k \in {} |-> None]

\* expand dropping the value of an Optional
expand_skip_optional(resolved) ==
    CASE resolved.tag = "Required" -> <<resolved.value>>
      [] resolved.tag = "Optional" -> <<>>
      [] resolved.tag \in {"Variadic", "RequiredVariadic"} -> resolved.values

\* expand pushing the values of a greedy argument back to front
expand_reversed(resolved) ==
    CASE resolved.tag = "Required" -> <<resolved.value>>
      [] resolved.tag = "Optional" ->
            IF resolved.opt = None THEN <<>> ELSE <<resolved.opt[1]>>
      [] resolved.tag \in {"Variadic", "RequiredVariadic"} ->
            [k \in 1..Len(resolved.values) |->
                resolved.values[Len(resolved.values) + 1 - k]]

\* the values a matched reference pushes onto resolved_command
expand(resolved) ==
    CASE resolved.tag = "Required" -> <<resolved.value>>
      [] resolved.tag = "Optional" ->
            IF resolved.opt = None THEN <<>> ELSE <<resolved.opt[1]>>
      [] resolved.tag \in {"Variadic", "RequiredVariadic"} -> resolved.values

\* env::var falling back to the empty string for an unset variable
env_var_or_default(var_name) ==
    IF env[var_name] = None THEN Ok("") ELSE Ok(env[var_name][1])

\* std::env::var(&var_name)
env_var(var_name) ==
    IF env[var_name] = None THEN Err("environment variable not found")
    ELSE Ok(env[var_name][1])

\* where resolve continues once n definitions are processed
AfterArguments(n, defs, cmd) ==
    IF n < Len(defs) THEN "arguments"
    ELSE IF Len(cmd) > 0 THEN "command" ELSE "check"

\* where resolve continues once n components are processed
AfterCommand(n, cmd) == IF n < Len(cmd) THEN "command" ELSE "check"

\* The recipes and token queues of the repository's tests, which the bounded
\* inputs are too small to hold.
Def(name, t) == [name |-> name, arg_type |-> t]

\* arguments.rs test_argument_resolving_1 as a recipe (Optional, Required,
\* Optional against three tokens), its template referencing back to front
example_1 ==
    [arguments |-> <<Def("x", "Optional"), Def("y", "Required"), Def("z", "Optional")>>,
     command |-> <<Literal("echo"), Argument(Def("z", "Optional")),
                   Argument(Def("y", "Required")), Argument(Def("x", "Optional"))>>,
     tokens |-> <<"a", "b", "c">>]

\* the same recipe, its template referencing front to back
example_2 == [example_1 EXCEPT !.command =
                  <<Literal("echo"), Argument(Def("x", "Optional")),
                    Argument(Def("y", "Required")), Argument(Def("z", "Optional"))>>]

\* tests/integration_test.rs test_resolve_1
test_resolve_1 ==
    [arguments |-> <<Def("arg0", "Required"), Def("arg1", "Optional"),
                     Def("arg2", "Variadic")>>,
     command |-> <<Literal("echo"), Literal("Hello"), Argument(Def("arg1", "Optional")),
                   Argument(Def("arg0", "Required")), Argument(Def("arg2", "Variadic"))>>,
     tokens |-> <<"val0", "val1", "val2">>]

\* lib.rs test_config: a RequiredVariadic definition after a Variadic one
test_config ==
    [arguments |-> <<Def("arg0", "Required"), Def("arg1", "Optional"),
                     Def("arg2", "Variadic"), Def("arg3", "RequiredVariadic")>>,
     command |-> <<Literal("echo"), Literal("Hello"), Argument(Def("arg0", "Required")),
                   Argument(Def("arg1", "Optional")), Argument(Def("arg2", "Variadic")),
                   Argument(Def("arg3", "RequiredVariadic"))>>,
     tokens |-> <<"val0", "val1", "val2">>]

Scenarios == {example_1, example_2, test_resolve_1, test_config}

Init ==
    /\ \/ /\ \E d \in 0..MaxRecipe :
                /\ arguments \in [1..d -> ArgumentDefinition]
                /\ command \in SeqsUpTo(Component, MaxRecipe - d)
          /\ tokens \in SeqsUpTo(Tokens, MaxTokens)
       \/ \E s \in Scenarios :
             /\ arguments = s.arguments
             /\ command = s.command
             /\ tokens = s.tokens
    /\ env \in [EnvNames -> {None} \cup {Some(v) : v \in EnvValues}]
    /\ args = tokens
    /\ resolved_args = EmptyMap
    /\ resolved_command = <<>>
    /\ i = 0
    /\ j = 0
    /\ pc = AfterArguments(0, arguments, command)
    /\ result = NoResult
    /\ process = "none"
    /\ specifier = <<>>
    /\ definition = NoResult
    /\ calls = <<>>
    /\ outcomes = <<>>

\* one iteration of `for arg in arguments`
ResolveArgument ==
    /\ pc = "arguments"
    /\ LET arg == arguments[i + 1]
           r == resolve(arg.arg_type, args)
           res == with_context(r.res, "While resolving argument \"" \o summarize(arg) \o "\"")
       IN  /\ args' = r.args
           /\ IF res.tag = "Ok"
              THEN /\ resolved_args' = insert(resolved_args, arg.name, res.value)
                   /\ i' = i + 1
                   /\ pc' = AfterArguments(i + 1, arguments, command)
                   /\ UNCHANGED result
              ELSE /\ result' = res
                   /\ pc' = "done"
                   /\ UNCHANGED <<resolved_args, i>>
    /\ UNCHANGED <<arguments, command, tokens, env, resolved_command, j, process>>
    /\ UNCHANGED outside

\* one iteration of `for component in command`, Component::Literal
ResolveLiteral ==
    /\ pc = "command"
    /\ command[j + 1].kind = "Literal"
    /\ resolved_command' = Append(resolved_command, command[j + 1].literal)
    /\ j' = j + 1
    /\ pc' = AfterCommand(j + 1, command)
    /\ UNCHANGED <<arguments, command, tokens, env, args, resolved_args, i, result, process>>
    /\ UNCHANGED outside

\* one iteration of `for component in command`, Component::Argument
ResolveReference ==
    /\ pc = "command"
    /\ command[j + 1].kind = "Argument"
    /\ LET ref_arg == command[j + 1].ref_arg
       IN  IF ref_arg.name \notin DOMAIN resolved_args
           THEN /\ result' = Err("Argument " \o ref_arg.name \o " not found")
                /\ pc' = "done"
                /\ UNCHANGED <<resolved_command, j>>
           ELSE LET resolved_arg == resolved_args[ref_arg.name]
                IN  IF ~matches(resolved_arg, ref_arg.arg_type)
                    THEN /\ result' = Err("Argument \"" \o ref_arg.name \o "\" defined as "
                                          \o Display(arg_type(resolved_arg))
                                          \o " but referenced as " \o Display(ref_arg.arg_type))
                         /\ pc' = "done"
                         /\ UNCHANGED <<resolved_command, j>>
                    ELSE /\ resolved_command' = resolved_command \o expand(resolved_arg)
                         /\ j' = j + 1
                         /\ pc' = AfterCommand(j + 1, command)
                         /\ UNCHANGED result
    /\ UNCHANGED <<arguments, command, tokens, env, args, resolved_args, i, process>>
    /\ UNCHANGED outside

\* one iteration of `for component in command`, Component::EnvVar
ResolveEnvVar ==
    /\ pc = "command"
    /\ command[j + 1].kind = "EnvVar"
    /\ LET value == env_var(command[j + 1].var_name)
       IN  IF value.tag = "Err"
           THEN /\ result' = value
                /\ pc' = "done"
                /\ UNCHANGED <<resolved_command, j>>
           ELSE /\ resolved_command' = Append(resolved_command, value.value)
                /\ j' = j + 1
                /\ pc' = AfterCommand(j + 1, command)
                /\ UNCHANGED result
    /\ UNCHANGED <<arguments, command, tokens, env, args, resolved_args, i, process>>
    /\ UNCHANGED outside

\* bail!("Unexpected argument(s): {args:?}")
UnexpectedArguments(left) ==
    [tag |-> "Err", msg |-> "Unexpected argument(s)", args |-> left]

\* the end of resolve without the leftover check
ReturnUnchecked ==
    /\ pc = "check"
    /\ result' = Ok(resolved_command)
    /\ pc' = "done"
    /\ UNCHANGED <<arguments, command, tokens, env, args, resolved_args,
                   resolved_command, i, j, process>>
    /\ UNCHANGED outside

\* `if !args.is_empty() { bail!(..) }` and `Ok(resolved_command)`
CheckRemaining ==
    /\ pc = "check"
    /\ result' = IF args # <<>> THEN UnexpectedArguments(args) ELSE Ok(resolved_command)
    /\ pc' = "done"
    /\ UNCHANGED <<arguments, command, tokens, env, args, resolved_args,
                   resolved_command, i, j, process>>
    /\ UNCHANGED outside

\* main: report the error, or spawn resolved[0] with resolved[1..]
Execute ==
    /\ pc = "done"
    /\ process' = IF result.tag = "Err" THEN "error"
                  ELSE IF Len(result.value) = 0 THEN "panic"
                  ELSE "spawned"
    /\ pc' = "exit"
    /\ UNCHANGED <<arguments, command, tokens, env, args, resolved_args,
                   resolved_command, i, j, result>>
    /\ UNCHANGED outside

Next ==
    \/ ResolveArgument
    \/ ResolveLiteral
    \/ ResolveReference
    \/ ResolveEnvVar
    \/ CheckRemaining
    \/ Execute

Spec == Init /\ [][Next]_vars

\* ------------------------------------------- ArgumentDefinition::from_string

\* String::remove(0): the string without its first character
remove_first(str) == Tail(str)

\* ArgumentDefinition::from_string(mut arg: String), a string being the
\* sequence of its characters
from_string(arg) ==
    IF arg = <<>> THEN Err("Empty argument")
    ELSE LET first == arg[1]
             t == CASE first = "?" -> "Optional"
                    [] first = "*" -> "Variadic"
                    [] first = "+" -> "RequiredVariadic"
                    [] OTHER -> "Required"
         IN  Ok([name |-> IF t # "Required" THEN remove_first(arg) ELSE arg,
                 arg_type |-> t])

\* the variables of resolve and main, idle while the parser or a unit test runs
Idle ==
    /\ arguments = <<>>
    /\ command = <<>>
    /\ env = [v \in EnvNames |-> None]
    /\ resolved_args = EmptyMap
    /\ resolved_command = <<>>
    /\ i = 0
    /\ j = 0
    /\ result = NoResult
    /\ process = "none"

InitParse ==
    /\ specifier \in SeqsUpTo(Chars, MaxSpecifier)
    /\ definition = NoResult
    /\ pc = "from_string"
    /\ tokens = <<>>
    /\ args = <<>>
    /\ calls = <<>>
    /\ outcomes = <<>>
    /\ Idle

\* deserializing one specifier string
FromString ==
    /\ pc = "from_string"
    /\ definition' = from_string(specifier)
    /\ pc' = "parsed"
    /\ UNCHANGED <<arguments, command, tokens, env, args, resolved_args,
                   resolved_command, i, j, result, process, specifier, calls, outcomes>>

NextParse == FromString

SpecParse == InitParse /\ [][NextParse]_vars

\* ------------------------------------ arguments.rs tests: resolve on a queue

InitCalls ==
    /\ tokens \in SeqsUpTo(Tokens, MaxTokens)
    /\ args = tokens
    /\ calls = <<>>
    /\ outcomes = <<>>
    /\ pc = "test"
    /\ specifier = <<>>
    /\ definition = NoResult
    /\ Idle

\* `ArgumentType::<t>.resolve(&mut args)` as the unit tests call it, one call
\* after another on the same queue, whether or not the call before failed
Call ==
    /\ pc = "test"
    /\ Len(calls) < MaxCalls
    /\ \E t \in ArgumentType :
         LET r == resolve(t, args)
         IN  /\ args' = r.args
             /\ calls' = Append(calls, t)
             /\ outcomes' = Append(outcomes, r.res)
    /\ UNCHANGED <<arguments, command, tokens, env, resolved_args, resolved_command,
                   i, j, pc, result, process, specifier, definition>>

NextCalls == Call

SpecCalls == InitCalls /\ [][NextCalls]_vars

\* ------------------------------------------------------------ properties

\* resolve has returned to main
Returned == pc \in {"done", "exit"}

\* the input is one of the named scenarios
IsScenario(s) ==
    arguments = s.arguments /\ command = s.command /\ tokens = s.tokens

VariadicClass == {"Variadic", "RequiredVariadic"}

\* Number of tokens the first k definitions take from n supplied tokens, by
\* the arity policy alone: Required one, Optional at most one, the greedy
\* arities all that is left.
RECURSIVE Consumed(_, _, _)
Consumed(defs, n, k) ==
    IF k = 0 THEN 0
    ELSE LET before == Consumed(defs, n, k - 1)
             left == n - before
             t == defs[k].arg_type
         IN  before + (CASE t = "Required" -> 1
                         [] t = "Optional" -> IF left > 0 THEN 1 ELSE 0
                         [] t \in VariadicClass -> left)

\* The value a definition of arity t holds when it was given the tokens got.
Bound(t, got) ==
    CASE t = "Required" -> Required(got[1])
      [] t = "Optional" -> Optional(IF got = <<>> THEN None ELSE Some(got[1]))
      [] t = "Variadic" -> Variadic(got)
      [] t = "RequiredVariadic" -> RequiredVariadic(got)

\* C1: definitions are bound in definition-list order, each from the front of
\* the queue: the definition processed last holds exactly the tokens that
\* follow those its predecessors took, and the queue holds the rest, whatever
\* the template; [?x, y, ?z] against [a, b, c] gives x = Optional(Some(a)),
\* y = Required(b), z = Optional(Some(c)) and an empty queue.
C1_BindsInDefinitionOrder ==
    /\ i >= 1 =>
         LET from == Consumed(arguments, Len(tokens), i - 1)
             to == Consumed(arguments, Len(tokens), i)
         IN  /\ to <= Len(tokens)
             /\ arguments[i].name \in DOMAIN resolved_args
             /\ resolved_args[arguments[i].name]
                  = Bound(arguments[i].arg_type, SubSeq(tokens, from + 1, to))
             /\ args = SubSeq(tokens, to + 1, Len(tokens))
    /\ (arguments = example_1.arguments /\ tokens = example_1.tokens /\ i = 3) =>
         /\ resolved_args = ("x" :> Optional(Some("a")) @@ "y" :> Required("b")
                             @@ "z" :> Optional(Some("c")))
         /\ args = <<>>

\* C1 witness: the example resolved under the template that references the
\* arguments back to front.
C1_Witness ==
    /\ IsScenario(example_1)
    /\ Returned
    /\ result = Ok(<<"echo", "c", "b", "a">>)
    /\ resolved_args["x"] = Optional(Some("a"))

\* C2 as stated: the integration scenario binds arg1 = Optional(Some(val0)),
\* arg0 = Required(val1), arg2 = Variadic([val2]) and returns
\* [echo, Hello, val0, val1, val2].
C2_AsStated ==
    (IsScenario(test_resolve_1) /\ Returned) =>
        /\ resolved_args = ("arg0" :> Required("val1") @@ "arg1" :> Optional(Some("val0"))
                            @@ "arg2" :> Variadic(<<"val2">>))
        /\ result = Ok(<<"echo", "Hello", "val0", "val1", "val2">>)

\* C2 amended: the integration scenario binds in definition order,
\* arg0 = Required(val0), arg1 = Optional(Some(val1)), arg2 = Variadic([val2]),
\* and returns the template's order, [echo, Hello, val1, val0, val2].
C2_IntegrationScenario ==
    (IsScenario(test_resolve_1) /\ Returned) =>
        /\ resolved_args = ("arg0" :> Required("val0") @@ "arg1" :> Optional(Some("val1"))
                            @@ "arg2" :> Variadic(<<"val2">>))
        /\ result = Ok(<<"echo", "Hello", "val1", "val0", "val2">>)

\* C2 witness: the integration scenario has returned an argv.
C2_Witness ==
    IsScenario(test_resolve_1) /\ Returned /\ result.tag = "Ok" /\ Len(result.value) = 5

C4_ArgvNeverEmpty ==
    (Returned /\ result.tag = "Ok") => result.value # <<>>

\* C5: a reference that expanded had an entry of its name and of its arity
\* in the map; a reference that failed either names no entry and fails with
\* the not-found error for its name, or names an entry of another arity and
\* fails with the mismatch error giving the defined and the referenced arity.
C5_ReferenceMustMatch ==
    /\ \A k \in 1..j :
         command[k].kind = "Argument" =>
            /\ command[k].ref_arg.name \in DOMAIN resolved_args
            /\ resolved_args[command[k].ref_arg.name].tag = command[k].ref_arg.arg_type
    /\ (Returned /\ i = Len(arguments) /\ j < Len(command)
          /\ command[j + 1].kind = "Argument") =>
         LET ref == command[j + 1].ref_arg
         IN  IF ref.name \notin DOMAIN resolved_args
             THEN result = Err("Argument " \o ref.name \o " not found")
             ELSE /\ resolved_args[ref.name].tag # ref.arg_type
                  /\ result = Err("Argument \"" \o ref.name \o "\" defined as "
                                  \o Display(resolved_args[ref.name].tag)
                                  \o " but referenced as " \o Display(ref.arg_type))

\* C5 witness: definition x Required, referenced as ?x, failed as a mismatch.
C5_Witness ==
    /\ Returned
    /\ arguments = <<Def("x", "Required")>>
    /\ j < Len(command)
    /\ command[j + 1] = Argument(Def("x", "Optional"))
    /\ result = Err("Argument \"x\" defined as Required but referenced as ?Optional")

\* C6 as stated: once every definition is processed the map holds exactly
\* one entry per definition of the recipe, of the definition's arity.
C6_OneEntryPerDefinition ==
    i = Len(arguments) =>
        /\ Cardinality(DOMAIN resolved_args) = Len(arguments)
        /\ \A k \in 1..Len(arguments) :
             /\ arguments[k].name \in DOMAIN resolved_args
             /\ resolved_args[arguments[k].name].tag = arguments[k].arg_type

HasVariadic == \E k \in 1..Len(arguments) : arguments[k].arg_type \in VariadicClass

\* C7: when a recipe has a Variadic or RequiredVariadic definition and every
\* definition is processed, the queue is empty at the leftover check; the
\* unexpected-arguments error occurs only for a recipe without such a
\* definition that was given more tokens than it has definitions.
C7_ExtraOnlyWithoutVariadic ==
    /\ (i = Len(arguments) /\ HasVariadic) => args = <<>>
    /\ (Returned /\ result.tag = "Err" /\ result.msg = "Unexpected argument(s)") =>
         /\ ~HasVariadic
         /\ Len(tokens) > Len(arguments)
         /\ result.args = SubSeq(tokens, Len(arguments) + 1, Len(tokens))

\* C7 witness: a recipe with a greedy definition took two or more tokens and
\* returned an argv.
C7_Witness ==
    /\ Returned
    /\ HasVariadic
    /\ Len(tokens) > Len(arguments)
    /\ result.tag = "Ok"
    /\ args = <<>>

\* C8: a Variadic definition reached with an empty queue is bound to the
\* empty list and resolution goes on; a RequiredVariadic definition reached
\* with an empty queue makes resolve fail with the error for an empty
\* required variadic, naming that argument, however many definitions were
\* bound before it.
C8_EmptyQueuePolicy ==
    [][(pc = "arguments" /\ args = <<>>) =>
          LET arg == arguments[i + 1]
          IN  /\ arg.arg_type = "Variadic" =>
                   /\ i' = i + 1
                   /\ resolved_args'[arg.name] = Variadic(<<>>)
                   /\ result' = NoResult
                   /\ pc' # "done"
              /\ arg.arg_type = "RequiredVariadic" =>
                   /\ pc' = "done"
                   /\ i' = i
                   /\ resolved_args' = resolved_args
                   /\ result' = [tag |-> "Err",
                                 msg |-> "While resolving argument \"+" \o arg.name \o "\"",
                                 source |-> "Required variadic argument must contain at least one value"]
      ]_vars

\* C8 witness: a RequiredVariadic definition failed on an empty queue after
\* another definition was bound.
C8_Witness ==
    /\ Returned
    /\ i >= 1
    /\ i < Len(arguments)
    /\ arguments[i + 1].arg_type = "RequiredVariadic"
    /\ args = <<>>
    /\ result.tag = "Err"

\* a greedy definition stands before the k-th definition
VariadicBefore(k) == \E m \in 1..(k - 1) : arguments[m].arg_type \in VariadicClass

\* C9: a definition after a Variadic or RequiredVariadic one sees an empty
\* queue whatever the tokens: bound, it is an Optional holding None or a
\* Variadic holding the empty list; a Required or RequiredVariadic there makes
\* resolve fail while the definitions are bound; resolve fails there only at
\* a Required or RequiredVariadic definition that found the queue empty, so
\* no recipe is rejected for the order of its definitions.
C9_AfterVariadicQueueEmpty ==
    /\ (pc = "arguments" /\ VariadicBefore(i + 1)) => args = <<>>
    /\ (i >= 1 /\ VariadicBefore(i)) =>
         /\ arguments[i].arg_type \in {"Optional", "Variadic"}
         /\ resolved_args[arguments[i].name]
              = IF arguments[i].arg_type = "Optional" THEN Optional(None) ELSE Variadic(<<>>)
    /\ (Returned /\ \E k \in 1..Len(arguments) :
                      VariadicBefore(k) /\ arguments[k].arg_type \in {"Required", "RequiredVariadic"}) =>
         /\ result.tag = "Err"
         /\ i < Len(arguments)
         /\ j = 0
         /\ result.source \in {"Required argument not provided",
                               "Required variadic argument must contain at least one value"}
    /\ (Returned /\ i < Len(arguments)) =>
         /\ args = <<>>
         /\ arguments[i + 1].arg_type \in {"Required", "RequiredVariadic"}

\* C9 witness: tokens were supplied, a greedy definition took them, and the
\* Required definition after it failed.
C9_Witness ==
    /\ Returned
    /\ tokens # <<>>
    /\ i < Len(arguments)
    /\ VariadicBefore(i + 1)
    /\ arguments[i + 1].arg_type = "Required"
    /\ result.tag = "Err"
    /\ result.source = "Required argument not provided"

\* number of argv elements the k-th component contributed
Width(k) ==
    CASE command[k].kind = "Literal" -> 1
      [] command[k].kind = "EnvVar" -> 1
      [] command[k].kind = "Argument" ->
            LET r == resolved_args[command[k].ref_arg.name]
            IN  CASE r.tag = "Required" -> 1
                  [] r.tag = "Optional" -> Len(r.opt)
                  [] r.tag \in VariadicClass -> Len(r.values)

RECURSIVE Offset(_)
Offset(k) == IF k = 1 THEN 0 ELSE Offset(k - 1) + Width(k - 1)

LastDefinition(name) ==
    CHOOSE k \in 1..Len(arguments) :
        /\ arguments[k].name = name
        /\ \A m \in (k + 1)..Len(arguments) : arguments[m].name # name

\* the argv elements the k-th component stands for, from the inputs alone:
\* a literal's text, a variable's value, the input tokens the referenced
\* definition consumed, in input order
Piece(k) ==
    CASE command[k].kind = "Literal" -> <<command[k].literal>>
      [] command[k].kind = "EnvVar" -> <<env[command[k].var_name][1]>>
      [] command[k].kind = "Argument" ->
            LET d == LastDefinition(command[k].ref_arg.name)
            IN  SubSeq(tokens, Consumed(arguments, Len(tokens), d - 1) + 1,
                       Consumed(arguments, Len(tokens), d))

RECURSIVE Expansion(_)
Expansion(n) == IF n = 0 THEN <<>> ELSE Expansion(n - 1) \o Piece(n)

\* C11: the argv is the concatenation, in template order, of what each
\* component stands for: a literal one element, a variable one element, a
\* reference the tokens its definition consumed as separate elements in input
\* order (one for Required, none or one for Optional, all for the greedy
\* arities), nothing reordered, dropped, repeated or joined.
C11_ArgvIsConcatenation ==
    /\ i = Len(arguments) => resolved_command = Expansion(j)
    /\ (Returned /\ result.tag = "Ok") => result.value = Expansion(Len(command))

\* C11 witness: a greedy argument holding two different tokens was expanded
\* after a literal into three argv elements.
C11_Witness ==
    /\ Returned
    /\ tokens = <<"a", "b">>
    /\ Len(command) = 2
    /\ command[1].kind = "Literal"
    /\ command[2].kind = "Argument"
    /\ command[2].ref_arg.arg_type \in VariadicClass
    /\ result = Ok(<<"echo", "a", "b">>)

\* the tokens a resolved value holds
Values(resolved) ==
    CASE resolved.tag = "Required" -> <<resolved.value>>
      [] resolved.tag = "Optional" -> resolved.opt
      [] resolved.tag \in VariadicClass -> resolved.values

\* the resolved values of the first n definitions, in definition order
RECURSIVE AllValues(_)
AllValues(n) ==
    IF n = 0 THEN <<>>
    ELSE AllValues(n - 1) \o Values(resolved_args[arguments[n].name])

\* C14 as stated: whenever resolve succeeds, the resolved values of all
\* definitions, concatenated in definition order, are the input token queue:
\* no token is dropped or duplicated.
C14_TokenConservation ==
    (Returned /\ result.tag = "Ok") => AllValues(Len(arguments)) = tokens

\* C12 as stated: from_string fails exactly on the string of no characters,
\* and otherwise returns a name of at least one character: the string without
\* its leading '?', '*' or '+' for Optional, Variadic or RequiredVariadic, the
\* whole string for Required.
C12_ParsedNameNonEmpty ==
    pc = "parsed" =>
        /\ (definition.tag = "Err") = (specifier = <<>>)
        /\ definition.tag = "Ok" =>
             /\ Len(definition.value.name) >= 1
             /\ definition.value.arg_type =
                  (CASE specifier[1] = "?" -> "Optional"
                     [] specifier[1] = "*" -> "Variadic"
                     [] specifier[1] = "+" -> "RequiredVariadic"
                     [] OTHER -> "Required")
             /\ definition.value.name =
                  (IF specifier[1] \in {"?", "*", "+"}
                   THEN SubSeq(specifier, 2, Len(specifier)) ELSE specifier)

\* C13: a call of ArgumentType::resolve that returns an error leaves the queue
\* as it found it, only Required and RequiredVariadic return one, and an
\* Optional called next on that queue returns Optional(None) and leaves the
\* queue alone too.
C13_FailedStepKeepsQueue ==
    [][calls' # calls =>
          LET k == Len(calls')
          IN  /\ outcomes'[k].tag = "Err" =>
                   /\ args' = args
                   /\ calls'[k] \in {"Required", "RequiredVariadic"}
              /\ (k >= 2 /\ outcomes[k - 1].tag = "Err" /\ calls'[k] = "Optional") =>
                   /\ outcomes'[k] = Ok(Optional(None))
                   /\ args' = args
      ]_vars

\* C13 witness: a token was taken, the next call failed, and the Optional
\* called after it returned Optional(None).
C13_Witness ==
    /\ Len(calls) = 3
    /\ tokens # <<>>
    /\ outcomes[1].tag = "Ok"
    /\ outcomes[2].tag = "Err"
    /\ calls[3] = "Optional"
    /\ outcomes[3] = Ok(Optional(None))
    /\ args = <<>>

====
